---- MODULE Spec2Model ----
(***************************************************************************)
(* recoil-tools: typed wrappers around a Recoil atom holding one of four   *)
(* state shapes (list, dialog, filters, pagination) and the setter bundle  *)
(* each hook derives for it.  Every setter hands the container an updater  *)
(* `(prevState) => nextState`; the container applies it to the latest      *)
(* value of the atom.  `reset` restores the atom's `default`.              *)
(***************************************************************************)
EXTENDS Integers, Sequences, FiniteSets, TLC

\* ---------------------------------------------------------------- bounds
MaxNum == 2        \* largest number used for total / page / limit
MaxBatch == 2      \* most setter calls recorded between two renders
MaxLen == 2        \* longest list data
MaxItems == 2      \* most items passed to one variadic list call
MaxPushes == 3     \* most push calls one of two interleaved callers makes

\* ------------------------------------------------------------ value sets
Nums == 0..MaxNum
Metas == {"undefined", "meta", "metas"}
Items == 1..2
ItemSeqs == UNION {[1..n -> Items] : n \in 0..MaxItems}
UserIds == {"", "8"}
CategoryIds == {"", "1"}
FilterValues == [userId : UserIds, categoryId : CategoryIds]

\* A SetterOrUpdater argument: a literal <<"val", v>> or a function
\* <<"fn", name>>.
NumArgs == {<<"val", n>> : n \in Nums} \cup {<<"fn", "inc">>}
BoolArgs ==
  {<<"val", b>> : b \in BOOLEAN} \cup {<<"fn", "not">>, <<"fn", "throws">>}
MetaArgs ==
  {<<"val", m>> : m \in Metas} \cup {<<"fn", "append">>, <<"fn", "throws">>}
ValuesArgs == {<<"val", v>> : v \in FilterValues} \cup {<<"fn", "category1">>}
DataArgs == {<<"val", d>> : d \in ItemSeqs} \cup {<<"fn", "tail">>}

\* The updater functions callers pass, by name; "throws" is a function that
\* throws instead of returning, its call has no value.
Call(name, currVal) ==
  CASE name = "inc" -> currVal + 1
    [] name = "not" -> ~currVal
    [] name = "append" -> IF currVal = "meta" THEN "metas" ELSE "meta"
    [] name = "category1" -> [currVal EXCEPT !.categoryId = "1"]
    [] name = "tail" -> IF currVal = <<>> THEN <<>> ELSE Tail(currVal)

\* Variant: a function argument is not called, the current value is kept.
executeUpdater_KeepsOnFn(valOrUpdater, currVal) ==
  IF valOrUpdater[1] = "fn" THEN currVal ELSE valOrUpdater[2]

executeUpdater(valOrUpdater, currVal) ==
  IF valOrUpdater[1] = "fn"
    THEN Call(valOrUpdater[2], currVal)
    ELSE valOrUpdater[2]

\* Two components that hold the setters of the same list atom, and the item
\* each one pushes in its k-th call.
Callers == 1..2
Item(c, k) == 10 * c + k

\* ----------------------------------------------------------------- state
VARIABLES
  kind,      \* which of the four atom constructors made the cell
  default,   \* options.default given to the constructor
  cell,      \* the atom's latest value
  inBatch,   \* TRUE: the caller issues its setter calls inside update batches
  state,     \* the value the hook returned at the last render
  calls,     \* setter calls issued in the current batch
  expected,  \* the batch's calls applied one after the other, in call order
  last,      \* the latest setter call (calls made outside a batch)
  prev,      \* the atom's value just before the latest setter call
  rerenders, \* TRUE: a component that only called the shape's setters-only
             \* hook has been re-rendered by a change of the atom
  held,      \* the record read from the atom just before the latest setter
             \* call, as that object reads after the call
  pushed     \* how many push calls each of two interleaved callers has made

vars ==
  <<kind, default, cell, inBatch, state, calls, expected, last, prev,
    rerenders, held, pushed>>

NoCall == [op |-> "none", arg |-> <<"none">>]

\* Variant: updaters are handed the value the component last rendered with.
prevState_Stale == state

\* The value the container hands to an updater: the atom's latest value.
prevState == cell

\* Variant: a reset that derives offset again from the default's page and limit.
resetUpdater_Recomputed(prevS, arg) ==
  IF kind = "pagination"
    THEN [default EXCEPT !.offset = (default.page - 1) * default.limit]
    ELSE default

\* useResetRecoilState: the atom goes back to options.default.
resetUpdater(prevS, arg) == default

\* ------------------------------------------------------------ pagination
PaginationDefaults ==
  [total : {0}, page : 1..2, limit : {1}, offset : 0..1, meta : {"meta"}]

paginationAtom(options) == options

\* Variant: offset is derived again whenever total is set.
paginationSetTotal_Recomputes(prevS, valOrUpdater) ==
  [prevS EXCEPT !.total = executeUpdater(valOrUpdater, prevS.total),
                !.offset = (prevS.page - 1) * prevS.limit]

paginationSetTotal(prevS, valOrUpdater) ==
  [prevS EXCEPT !.total = executeUpdater(valOrUpdater, prevS.total)]

\* Variant: offset derived from the page held before the call.
paginationSetPage_OldPage(prevS, valOrUpdater) ==
  LET page == executeUpdater(valOrUpdater, prevS.page)
  IN  [prevS EXCEPT !.page = page, !.offset = (prevS.page - 1) * prevS.limit]

paginationSetPage(prevS, valOrUpdater) ==
  LET page == executeUpdater(valOrUpdater, prevS.page)
  IN  [prevS EXCEPT !.page = page, !.offset = (page - 1) * prevS.limit]

\* Variant: offset derived from the limit held before the call.
paginationSetLimit_OldLimit(prevS, valOrUpdater) ==
  LET limit == executeUpdater(valOrUpdater, prevS.limit)
  IN  [prevS EXCEPT !.limit = limit,
                    !.offset = (prevS.page - 1) * prevS.limit]

\* Variant: limit replaced, offset left as it was.
paginationSetLimit_NoOffset(prevS, valOrUpdater) ==
  [prevS EXCEPT !.limit = executeUpdater(valOrUpdater, prevS.limit)]

paginationSetLimit(prevS, valOrUpdater) ==
  LET limit == executeUpdater(valOrUpdater, prevS.limit)
  IN  [prevS EXCEPT !.limit = limit, !.offset = (prevS.page - 1) * limit]

paginationSetMeta(prevS, valOrUpdater) ==
  [prevS EXCEPT !.meta = executeUpdater(valOrUpdater, prevS.meta)]

\* ---------------------------------------------------------------- dialog
DialogDefaults == [isOpen : BOOLEAN, meta : {"undefined", "meta"}]

\* open(meta?): no argument, or one argument (which may be undefined).
OpenArgs == {<<"none">>} \cup {<<"val", m>> : m \in Metas}

dialogAtom(options) == options

dialogSetOpen(prevS, valOrUpdater) ==
  [prevS EXCEPT !.isOpen = executeUpdater(valOrUpdater, prevS.isOpen)]

\* Variant: the parameter is spread into the state whatever it holds.
dialogOpen_AlwaysMeta(prevS, arg) ==
  LET meta == IF arg[1] = "none" THEN "undefined" ELSE arg[2]
  IN  [prevS EXCEPT !.meta = meta, !.isOpen = TRUE]

\* The parameter `meta` is undefined when no argument is passed.
dialogOpen(prevS, arg) ==
  LET meta == IF arg[1] = "none" THEN "undefined" ELSE arg[2]
  IN  IF meta # "undefined"
        THEN [prevS EXCEPT !.meta = meta, !.isOpen = TRUE]
        ELSE [prevS EXCEPT !.isOpen = TRUE]

\* Variant: closing drops meta.
dialogClose_ClearsMeta(prevS, arg) == [isOpen |-> FALSE, meta |-> "undefined"]

dialogClose(prevS, arg) == [prevS EXCEPT !.isOpen = FALSE]

\* Variant: a function argument is stored as the new meta.
dialogSetMeta_StoresFn(prevS, valOrUpdater) ==
  [prevS EXCEPT !.meta = valOrUpdater[2]]

dialogSetMeta(prevS, valOrUpdater) ==
  [prevS EXCEPT !.meta = executeUpdater(valOrUpdater, prevS.meta)]

\* --------------------------------------------------------------- filters
FiltersDefaults ==
  [isOpen : BOOLEAN, isApplied : BOOLEAN,
   values : {[userId |-> "", categoryId |-> ""]}]

filtersAtom(options) == options

\* Variant: opening or closing the filters also marks them applied.
filtersSetOpen_Applies(prevS, valOrUpdater) ==
  [prevS EXCEPT !.isOpen = executeUpdater(valOrUpdater, prevS.isOpen),
                !.isApplied = TRUE]

filtersSetOpen(prevS, valOrUpdater) ==
  [prevS EXCEPT !.isOpen = executeUpdater(valOrUpdater, prevS.isOpen)]

\* Variant: setting isApplied closes the filters.
filtersSetApplied_Closes(prevS, valOrUpdater) ==
  [prevS EXCEPT !.isApplied = executeUpdater(valOrUpdater, prevS.isApplied),
                !.isOpen = FALSE]

filtersSetApplied(prevS, valOrUpdater) ==
  [prevS EXCEPT !.isApplied = executeUpdater(valOrUpdater, prevS.isApplied)]

\* Variant: values replaced, isApplied left as it was.
filtersApply_KeepsApplied(prevS, valOrUpdater) ==
  [prevS EXCEPT !.values = executeUpdater(valOrUpdater, prevS.values)]

filtersApply(prevS, valOrUpdater) ==
  [prevS EXCEPT !.isApplied = TRUE,
                !.values = executeUpdater(valOrUpdater, prevS.values)]

\* Variant: a reset that keeps the applied values.
filtersReset_KeepsValues(prevS, arg) == [default EXCEPT !.values = prevS.values]

\* reset(): restores the default supplied when the cell was created.
filtersReset(prevS, arg) == default

\* ------------------------------------------------------------------ list
ListDefaults == [data : {<<>>, <<1, 2>>}, meta : {"undefined"}]

ItemsArgs == {<<"items", d>> : d \in ItemSeqs}

listAtom(options) == options

listSetData(prevS, valOrUpdater) ==
  [prevS EXCEPT !.data = executeUpdater(valOrUpdater, prevS.data)]

listSetMeta(prevS, valOrUpdater) ==
  [prevS EXCEPT !.meta = executeUpdater(valOrUpdater, prevS.meta)]

\* Variant: meta is cleared with the data.
listClearData_ClearsMeta(prevS, arg) == [data |-> <<>>, meta |-> "undefined"]

listClearData(prevS, arg) == [prevS EXCEPT !.data = <<>>]

\* Variant: the items go behind the prior data.
listUnshift_Back(prevS, arg) == [prevS EXCEPT !.data = prevS.data \o arg[2]]

\* data.concat(prevState.data)
listUnshift(prevS, arg) == [prevS EXCEPT !.data = arg[2] \o prevS.data]

\* Variant: the items go in front of the prior data.
listPush_Front(prevS, arg) == [prevS EXCEPT !.data = arg[2] \o prevS.data]

\* prevState.data.concat(data)
listPush(prevS, arg) == [prevS EXCEPT !.data = prevS.data \o arg[2]]

\* Variant: the items are added to the prior data.
listClearPush_Appends(prevS, arg) ==
  [prevS EXCEPT !.data = prevS.data \o arg[2]]

listClearPush(prevS, arg) == [prevS EXCEPT !.data = arg[2]]

\* An empty slot of an array: a position below its length that holds no
\* element (it reads as undefined).
Empty == 0

\* The predicates callers pass, by name, as `(item, index) => boolean`;
\* index counts from 0.
\* "throwsAt1" returns false except at index 1, where it throws.
Preds == {"eq1", "eq2", "any", "none", "evenIndex", "throwsAt1"}

\* The calls of a predicate that throw instead of returning.
PredThrows(pred, item, index) == pred = "throwsAt1" /\ index = 1

Test(pred, item, index) ==
  CASE pred = "eq1" -> item = 1
    [] pred = "eq2" -> item = 2
    [] pred = "any" -> TRUE
    [] pred = "none" -> FALSE
    [] pred = "evenIndex" -> index % 2 = 0
    [] pred = "throwsAt1" -> FALSE

PredArgs == {<<"pred", p>> : p \in Preds}
PredItemArgs == {<<"pred", p, x>> : p \in Preds, x \in Items}
Indexes == -1..MaxLen
AtArgs == {<<"at", i>> : i \in Indexes}
AtItemArgs == {<<"at", i, x>> : i \in Indexes, x \in Items}

\* Array.prototype.findIndex: the lowest index (from 0) whose value passes,
\* or -1; an empty slot is visited as undefined.
findIndex(array, pred) ==
  LET found == {i \in 1..Len(array) : Test(pred, array[i], i - 1)}
  IN  IF found = {} THEN -1
      ELSE (CHOOSE i \in found : \A j \in found : i <= j) - 1

\* Array.prototype.filter with `(item, i) => predicate(item, i) = wanted`:
\* the elements that pass, in order; empty slots are not visited.
RECURSIVE arrayFilter(_, _, _, _)
arrayFilter(array, pred, wanted, from) ==
  IF from > Len(array) THEN <<>>
  ELSE (IF array[from] # Empty /\ Test(pred, array[from], from - 1) = wanted
          THEN <<array[from]>> ELSE <<>>)
       \o arrayFilter(array, pred, wanted, from + 1)

\* Variant: array.splice(start), everything from start on is removed.
splice_Tail(array, start) ==
  LET len == Len(array)
      from == IF start < 0
                THEN (IF len + start < 0 THEN 0 ELSE len + start)
                ELSE (IF start > len THEN len ELSE start)
  IN  SubSeq(array, 1, from)

\* Variant: a start past the end removes the last element.
splice_Clamped(array, start) ==
  LET len == Len(array)
      from == IF start < 0
                THEN (IF len + start < 0 THEN 0 ELSE len + start)
                ELSE (IF start >= len THEN len - 1 ELSE start)
  IN  IF len = 0 THEN array
      ELSE SubSeq(array, 1, from) \o SubSeq(array, from + 2, len)

\* array.splice(start, 1) on a copy: a negative start counts from the end,
\* a start past the end removes nothing.
splice(array, start) ==
  LET len == Len(array)
      from == IF start < 0
                THEN (IF len + start < 0 THEN 0 ELSE len + start)
                ELSE (IF start > len THEN len ELSE start)
  IN  IF from >= len THEN array
      ELSE SubSeq(array, 1, from) \o SubSeq(array, from + 2, len)

\* Variant: the item is written one position further.
updateArrayItemAt_Next(array, index, item) ==
  IF index < 0 THEN array
  ELSE LET len == IF index + 2 > Len(array) THEN index + 2 ELSE Len(array)
       IN  [i \in 1..len |->
              IF i = index + 2 THEN item
              ELSE IF i <= Len(array) THEN array[i] ELSE Empty]

\* Variant: an index past the end writes nothing.
updateArrayItemAt_NoExtend(array, index, item) ==
  IF index < 0 \/ index >= Len(array) THEN array
  ELSE [i \in 1..Len(array) |-> IF i = index + 1 THEN item ELSE array[i]]

updateArrayItemAt(array, index, item) ==
  IF index < 0 THEN array
  ELSE LET len == IF index + 1 > Len(array) THEN index + 1 ELSE Len(array)
       IN  [i \in 1..len |->
              IF i = index + 1 THEN item
              ELSE IF i <= Len(array) THEN array[i] ELSE Empty]

\* Variant: the index goes to splice unchecked.
removeArrayItemAt_NoGuard(array, index) == splice(array, index)

removeArrayItemAt(array, index) ==
  IF index < 0 THEN array ELSE splice(array, index)

\* Variant: an existing match is replaced by the new item.
listUpsert_Replaces(prevS, arg) ==
  LET index == findIndex(prevS.data, arg[2])
  IN  IF index >= 0
        THEN [prevS EXCEPT !.data = updateArrayItemAt(prevS.data, index, arg[3])]
        ELSE [prevS EXCEPT !.data = prevS.data \o <<arg[3]>>]

listUpsert(prevS, arg) ==
  LET index == findIndex(prevS.data, arg[2])
  IN  IF index >= 0 THEN prevS
      ELSE [prevS EXCEPT !.data = prevS.data \o <<arg[3]>>]

listUpdateAt(prevS, arg) ==
  [prevS EXCEPT !.data = updateArrayItemAt(prevS.data, arg[2], arg[3])]

\* Variant: only the first match is replaced.
listUpdateAll_FirstOnly(prevS, arg) ==
  [prevS EXCEPT !.data =
     updateArrayItemAt(prevS.data, findIndex(prevS.data, arg[2]), arg[3])]

\* prevState.data.map((prevItem, i) => predicate(prevItem, i) ? newItem :
\* prevItem): empty slots are not visited and stay empty.
listUpdateAll(prevS, arg) ==
  [prevS EXCEPT !.data =
     [i \in 1..Len(prevS.data) |->
        IF prevS.data[i] # Empty /\ Test(arg[2], prevS.data[i], i - 1)
          THEN arg[3] ELSE prevS.data[i]]]

\* Variant: every match is replaced, not only the first.
listUpdate_All(prevS, arg) == listUpdateAll(prevS, arg)

listUpdate(prevS, arg) ==
  LET index == findIndex(prevS.data, arg[2])
  IN  [prevS EXCEPT !.data = updateArrayItemAt(prevS.data, index, arg[3])]

listRemoveAt(prevS, arg) ==
  [prevS EXCEPT !.data = removeArrayItemAt(prevS.data, arg[2])]

\* Variant: every match is removed, not only the first.
listRemove_All(prevS, arg) ==
  [prevS EXCEPT !.data = arrayFilter(prevS.data, arg[2], FALSE, 1)]

listRemove(prevS, arg) ==
  LET index == findIndex(prevS.data, arg[2])
  IN  [prevS EXCEPT !.data = removeArrayItemAt(prevS.data, index)]

\* Variant: the matches are kept and the others removed.
listRemoveAll_Inverted(prevS, arg) ==
  [prevS EXCEPT !.data = arrayFilter(prevS.data, arg[2], TRUE, 1)]

\* Variant: only the first match is removed.
listRemoveAll_FirstOnly(prevS, arg) == listRemove(prevS, arg)

\* Variant: the predicate is asked again, with the survivors' new indexes,
\* until it holds for none of them.
RECURSIVE filterUntilStable(_, _)
filterUntilStable(array, pred) ==
  LET rest == arrayFilter(array, pred, FALSE, 1)
  IN  IF rest = array THEN array ELSE filterUntilStable(rest, pred)

listRemoveAll_Reindexed(prevS, arg) ==
  [prevS EXCEPT !.data = filterUntilStable(prevS.data, arg[2])]

\* prevState.data.filter((item, i) => !predicate(item, i))
listRemoveAll(prevS, arg) ==
  [prevS EXCEPT !.data = arrayFilter(prevS.data, arg[2], FALSE, 1)]

\* Variant: the elements that fail the predicate are kept.
listFilter_Inverted(prevS, arg) ==
  [prevS EXCEPT !.data = arrayFilter(prevS.data, arg[2], FALSE, 1)]

\* prevState.data.filter(predicate, thisArg)
listFilter(prevS, arg) ==
  [prevS EXCEPT !.data = arrayFilter(prevS.data, arg[2], TRUE, 1)]

\* The compare functions callers pass to sort, by name; "undefined" is the
\* omitted argument, "throws" a function that throws whenever it is called.
Cmps == {"asc", "desc", "zero", "undefined", "throws"}
CmpArgs == {<<"cmp", c>> : c \in Cmps}

\* Number.prototype.toString: the decimal digits, most significant first.
RECURSIVE toString(_)
toString(x) == IF x < 10 THEN <<x>> ELSE toString(x \div 10) \o <<x % 10>>

\* s < t for strings of digits, compared code unit by code unit.
stringLess(s, t) ==
  \E k \in 1..Len(t) :
    /\ k <= Len(s) + 1
    /\ \A i \in 1..(k - 1) : s[i] = t[i]
    /\ IF k = Len(s) + 1 THEN TRUE ELSE s[k] < t[k]

\* The number sort's comparison yields for (a, b): compareFn(a, b), or the
\* comparison of the two values' strings when compareFn is omitted.
Compare(cmp, a, b) ==
  CASE cmp = "asc" -> a - b
    [] cmp = "desc" -> b - a
    [] cmp = "zero" -> 0
    [] cmp = "throws" -> 0
    [] cmp = "undefined" ->
         IF stringLess(toString(a), toString(b)) THEN -1
         ELSE IF stringLess(toString(b), toString(a)) THEN 1 ELSE 0

\* Variant: an element goes in front of the elements it ties with.
insert_BeforeTies(sorted, cmp, x) ==
  LET k == Cardinality({i \in 1..Len(sorted) : Compare(cmp, sorted[i], x) < 0})
  IN  SubSeq(sorted, 1, k) \o <<x>> \o SubSeq(sorted, k + 1, Len(sorted))

\* One step of the stable sort: x goes behind every element it does not
\* precede.
insert(sorted, cmp, x) ==
  LET k == Cardinality({i \in 1..Len(sorted) : Compare(cmp, sorted[i], x) <= 0})
  IN  SubSeq(sorted, 1, k) \o <<x>> \o SubSeq(sorted, k + 1, Len(sorted))

RECURSIVE sortPresent(_, _)
sortPresent(elements, cmp) ==
  IF elements = <<>> THEN <<>>
  ELSE insert(sortPresent(SubSeq(elements, 1, Len(elements) - 1), cmp), cmp,
              elements[Len(elements)])

\* Array.prototype.sort on a copy: the elements in the order of the
\* comparison, ties in their prior order; empty slots go to the end.
arraySort(array, cmp) ==
  LET elements == arrayFilter(array, "any", TRUE, 1)
  IN  sortPresent(elements, cmp)
        \o [i \in 1..(Len(array) - Len(elements)) |-> Empty]

\* Variant: the compare function is ignored.
listSort_Ascending(prevS, arg) ==
  [prevS EXCEPT !.data = arraySort(prevS.data, "asc")]

\* prevState.data.slice().sort(compareFn)
listSort(prevS, arg) ==
  [prevS EXCEPT !.data = arraySort(prevS.data, arg[2])]

\* Variant: the order is kept.
listReverse_Same(prevS, arg) == prevS

\* prevState.data.slice().reverse(): an empty slot moves like an element.
listReverse(prevS, arg) ==
  [prevS EXCEPT !.data =
     [i \in 1..Len(prevS.data) |-> prevS.data[Len(prevS.data) + 1 - i]]]

\* ----------------------------------------------------------- the container
\* The updater each setter of the bundle hands to setState.
updater(op, arg, prevS) ==
  CASE kind = "pagination" /\ op = "setTotal" -> paginationSetTotal(prevS, arg)
    [] kind = "pagination" /\ op = "setPage" -> paginationSetPage(prevS, arg)
    [] kind = "pagination" /\ op = "setLimit" -> paginationSetLimit(prevS, arg)
    [] kind = "pagination" /\ op = "setMeta" -> paginationSetMeta(prevS, arg)
    [] kind = "pagination" /\ op = "reset" -> resetUpdater(prevS, arg)
    [] kind = "dialog" /\ op = "setOpen" -> dialogSetOpen(prevS, arg)
    [] kind = "dialog" /\ op = "open" -> dialogOpen(prevS, arg)
    [] kind = "dialog" /\ op = "close" -> dialogClose(prevS, arg)
    [] kind = "dialog" /\ op = "setMeta" -> dialogSetMeta(prevS, arg)
    [] kind = "dialog" /\ op = "reset" -> resetUpdater(prevS, arg)
    [] kind = "filters" /\ op = "setOpen" -> filtersSetOpen(prevS, arg)
    [] kind = "filters" /\ op = "setApplied" -> filtersSetApplied(prevS, arg)
    [] kind = "filters" /\ op = "open" -> filtersSetOpen(prevS, arg)
    [] kind = "filters" /\ op = "close" -> filtersSetOpen(prevS, arg)
    [] kind = "filters" /\ op = "apply" -> filtersApply(prevS, arg)
    [] kind = "filters" /\ op = "reset" -> filtersReset(prevS, arg)
    [] kind = "list" /\ op = "setData" -> listSetData(prevS, arg)
    [] kind = "list" /\ op = "setMeta" -> listSetMeta(prevS, arg)
    [] kind = "list" /\ op = "clearData" -> listClearData(prevS, arg)
    [] kind = "list" /\ op = "unshift" -> listUnshift(prevS, arg)
    [] kind = "list" /\ op = "push" -> listPush(prevS, arg)
    [] kind = "list" /\ op = "clearPush" -> listClearPush(prevS, arg)
    [] kind = "list" /\ op = "upsert" -> listUpsert(prevS, arg)
    [] kind = "list" /\ op = "updateAt" -> listUpdateAt(prevS, arg)
    [] kind = "list" /\ op = "update" -> listUpdate(prevS, arg)
    [] kind = "list" /\ op = "updateAll" -> listUpdateAll(prevS, arg)
    [] kind = "list" /\ op = "removeAt" -> listRemoveAt(prevS, arg)
    [] kind = "list" /\ op = "remove" -> listRemove(prevS, arg)
    [] kind = "list" /\ op = "removeAll" -> listRemoveAll(prevS, arg)
    [] kind = "list" /\ op = "filter" -> listFilter(prevS, arg)
    [] kind = "list" /\ op = "sort" -> listSort(prevS, arg)
    [] kind = "list" /\ op = "reverse" -> listReverse(prevS, arg)
    [] kind = "list" /\ op = "reset" -> resetUpdater(prevS, arg)

\* The Recoil hooks each setters-only hook goes through.
useRecoilListSetters == {"useRecoilState", "useResetRecoilState"}
useRecoilDialogSetters == {"useSetRecoilState", "useResetRecoilState"}
useRecoilFiltersSetters == {"useRecoilState"}
useRecoilPaginationSetters == {"useSetRecoilState", "useResetRecoilState"}

\* The Recoil hooks that read the atom subscribe the calling component to it.
SubscribingHooks == {"useRecoilState", "useRecoilValue"}

\* Whether a component that called only the setters-only hook of the cell's
\* shape is subscribed to the atom.
settersSubscribed ==
  LET hooks == CASE kind = "list" -> useRecoilListSetters
                 [] kind = "dialog" -> useRecoilDialogSetters
                 [] kind = "filters" -> useRecoilFiltersSetters
                 [] kind = "pagination" -> useRecoilPaginationSetters
  IN  hooks \cap SubscribingHooks # {}

\* Whether running the updater of the call on prevS calls a callback that
\* throws.  executeUpdater calls a function argument unconditionally;
\* findIndex calls the predicate on every position up to the first match;
\* map and filter call it on every element; sort calls the compare function
\* once there are two elements to compare.
throws(op, arg, prevS) ==
  CASE arg[1] = "fn" -> arg[2] = "throws"
    [] arg[1] = "pred" /\ op \in {"upsert", "update", "remove"} ->
         \E i \in 1..Len(prevS.data) :
           /\ PredThrows(arg[2], prevS.data[i], i - 1)
           /\ \A j \in 1..(i - 1) : ~Test(arg[2], prevS.data[j], j - 1)
    [] arg[1] = "pred" /\ op \in {"updateAll", "removeAll", "filter"} ->
         \E i \in 1..Len(prevS.data) :
           /\ prevS.data[i] # Empty
           /\ PredThrows(arg[2], prevS.data[i], i - 1)
    [] arg[1] = "cmp" ->
         /\ arg[2] = "throws"
         /\ Len(arrayFilter(prevS.data, "any", TRUE, 1)) >= 2
    [] OTHER -> FALSE

\* Variant: a throwing updater leaves the atom at its default.
afterThrow_Reset(prevS) == default

\* The atom's value after an updater threw: nothing catches the exception
\* and nothing was written.
afterThrow(prevS) == prevS

\* The setters whose updater calls a native method that modifies the array
\* it is called on (sort, reverse, index assignment, splice).
mutatesReceiver(op) ==
  op \in {"sort", "reverse", "updateAt", "update", "removeAt", "remove"}

\* Variant: sort and reverse are called on prevState.data itself.
slice_NotForSort(op) == op \notin {"sort", "reverse"}

\* Whether that method is called on a slice() copy of prevState.data.
slice(op) == TRUE

\* What the record the updater was handed holds after the updater ran.
readAfter(op, arg, prevS) ==
  IF kind = "list" /\ mutatesReceiver(op) /\ ~slice(op)
    THEN [prevS EXCEPT !.data = updater(op, arg, prevS).data]
    ELSE prevS

\* One setter call: the container applies the updater the setter built to
\* the atom's latest value and replaces the atom's value with the result;
\* a change of the value re-renders the subscribed components.
\* Outside a batch the component re-renders right after the call.
\* An updater that throws ends the call: the exception reaches the caller.
setState(op, arg) ==
  /\ IF throws(op, arg, prevState)
       THEN /\ cell' = afterThrow(cell)
            /\ UNCHANGED <<expected, calls>>
            /\ rerenders' = (rerenders \/ (settersSubscribed /\ cell' # cell))
            /\ IF inBatch
                 THEN UNCHANGED <<state, last, prev, held>>
                 ELSE /\ state' = cell'
                      /\ last' = [op |-> "threw", arg |-> <<"threw", op, arg>>]
                      /\ prev' = cell
                      /\ held' = cell
       ELSE /\ cell' = updater(op, arg, prevState)
            /\ expected' = IF inBatch THEN updater(op, arg, expected) ELSE cell'
            /\ rerenders' = (rerenders \/ (settersSubscribed /\ cell' # cell))
            /\ IF inBatch
                 THEN /\ calls < MaxBatch
                      /\ calls' = calls + 1
                      /\ UNCHANGED <<state, last, prev, held>>
                 ELSE /\ state' = cell'
                      /\ last' = [op |-> op, arg |-> arg]
                      /\ prev' = cell
                      /\ held' = readAfter(op, arg, cell)
                      /\ UNCHANGED calls
  /\ UNCHANGED <<kind, default, inBatch>>

\* --------------------------------------------------------------- setters
PaginationSetTotal ==
  /\ kind = "pagination"
  /\ \E v \in NumArgs :
       /\ executeUpdater(v, prevState.total) \in Nums
       /\ setState("setTotal", v)
  /\ UNCHANGED pushed

PaginationSetPage ==
  /\ kind = "pagination"
  /\ \E v \in NumArgs :
       /\ executeUpdater(v, prevState.page) \in Nums
       /\ setState("setPage", v)
  /\ UNCHANGED pushed

PaginationSetLimit ==
  /\ kind = "pagination"
  /\ \E v \in NumArgs :
       /\ executeUpdater(v, prevState.limit) \in Nums
       /\ setState("setLimit", v)
  /\ UNCHANGED pushed

PaginationSetMeta ==
  /\ kind = "pagination"
  /\ \E v \in MetaArgs : setState("setMeta", v)
  /\ UNCHANGED pushed

PaginationReset ==
  /\ kind = "pagination"
  /\ setState("reset", <<"none">>)
  /\ UNCHANGED pushed

DialogSetOpen ==
  /\ kind = "dialog"
  /\ \E v \in BoolArgs : setState("setOpen", v)
  /\ UNCHANGED pushed

DialogOpen ==
  /\ kind = "dialog"
  /\ \E a \in OpenArgs : setState("open", a)
  /\ UNCHANGED pushed

DialogClose ==
  /\ kind = "dialog"
  /\ setState("close", <<"none">>)
  /\ UNCHANGED pushed

DialogSetMeta ==
  /\ kind = "dialog"
  /\ \E v \in MetaArgs : setState("setMeta", v)
  /\ UNCHANGED pushed

DialogReset ==
  /\ kind = "dialog"
  /\ setState("reset", <<"none">>)
  /\ UNCHANGED pushed

FiltersSetOpen ==
  /\ kind = "filters"
  /\ \E v \in BoolArgs : setState("setOpen", v)
  /\ UNCHANGED pushed

FiltersSetApplied ==
  /\ kind = "filters"
  /\ \E v \in BoolArgs : setState("setApplied", v)
  /\ UNCHANGED pushed

\* open = () => setOpen(true)
FiltersOpen ==
  /\ kind = "filters"
  /\ setState("open", <<"val", TRUE>>)
  /\ UNCHANGED pushed

\* close = () => setOpen(false)
FiltersClose ==
  /\ kind = "filters"
  /\ setState("close", <<"val", FALSE>>)
  /\ UNCHANGED pushed

FiltersApply ==
  /\ kind = "filters"
  /\ \E v \in ValuesArgs : setState("apply", v)
  /\ UNCHANGED pushed

FiltersReset ==
  /\ kind = "filters"
  /\ setState("reset", <<"none">>)
  /\ UNCHANGED pushed

ListSetData ==
  /\ kind = "list"
  /\ \E v \in DataArgs : setState("setData", v)
  /\ UNCHANGED pushed

ListSetMeta ==
  /\ kind = "list"
  /\ \E v \in MetaArgs : setState("setMeta", v)
  /\ UNCHANGED pushed

ListClearData ==
  /\ kind = "list"
  /\ setState("clearData", <<"none">>)
  /\ UNCHANGED pushed

ListUnshift ==
  /\ kind = "list"
  /\ \E a \in ItemsArgs :
       /\ Len(prevState.data) + Len(a[2]) <= MaxLen
       /\ setState("unshift", a)
  /\ UNCHANGED pushed

ListPush ==
  /\ kind = "list"
  /\ \E a \in ItemsArgs :
       /\ Len(prevState.data) + Len(a[2]) <= MaxLen
       /\ setState("push", a)
  /\ UNCHANGED pushed

ListClearPush ==
  /\ kind = "list"
  /\ \E a \in ItemsArgs : setState("clearPush", a)
  /\ UNCHANGED pushed

ListUpsert ==
  /\ kind = "list"
  /\ \E a \in PredItemArgs :
       /\ Len(listUpsert(prevState, a).data) <= MaxLen
       /\ setState("upsert", a)
  /\ UNCHANGED pushed

ListUpdateAt ==
  /\ kind = "list"
  /\ \E a \in AtItemArgs :
       /\ a[2] < MaxLen
       /\ setState("updateAt", a)
  /\ UNCHANGED pushed

ListUpdate ==
  /\ kind = "list"
  /\ \E a \in PredItemArgs : setState("update", a)
  /\ UNCHANGED pushed

ListUpdateAll ==
  /\ kind = "list"
  /\ \E a \in PredItemArgs : setState("updateAll", a)
  /\ UNCHANGED pushed

ListRemoveAt ==
  /\ kind = "list"
  /\ \E a \in AtArgs : setState("removeAt", a)
  /\ UNCHANGED pushed

ListRemove ==
  /\ kind = "list"
  /\ \E a \in PredArgs : setState("remove", a)
  /\ UNCHANGED pushed

ListRemoveAll ==
  /\ kind = "list"
  /\ \E a \in PredArgs : setState("removeAll", a)
  /\ UNCHANGED pushed

ListFilter ==
  /\ kind = "list"
  /\ \E a \in PredArgs : setState("filter", a)
  /\ UNCHANGED pushed

ListSort ==
  /\ kind = "list"
  /\ \E a \in CmpArgs : setState("sort", a)
  /\ UNCHANGED pushed

ListReverse ==
  /\ kind = "list"
  /\ setState("reverse", <<"none">>)
  /\ UNCHANGED pushed

ListReset ==
  /\ kind = "list"
  /\ setState("reset", <<"none">>)
  /\ UNCHANGED pushed

\* ---------------------------------------------------------------- render
\* The batch ends and the component re-renders: the hook returns the
\* atom's current value.
Render ==
  /\ inBatch
  /\ calls > 0
  /\ state' = cell
  /\ calls' = 0
  /\ UNCHANGED <<kind, default, cell, inBatch, expected, last, prev,
                 rerenders, held, pushed>>

\* ------------------------------------------------------------------ spec
Init ==
  /\ \/ kind = "pagination" /\ \E o \in PaginationDefaults :
          default = o /\ cell = paginationAtom(o)
     \/ kind = "dialog" /\ \E o \in DialogDefaults :
          default = o /\ cell = dialogAtom(o)
     \/ kind = "filters" /\ \E o \in FiltersDefaults :
          default = o /\ cell = filtersAtom(o)
     \/ kind = "list" /\ \E o \in ListDefaults :
          default = o /\ cell = listAtom(o)
  /\ inBatch \in BOOLEAN
  /\ state = cell
  /\ calls = 0
  /\ expected = cell
  /\ last = NoCall
  /\ prev = cell
  /\ rerenders = FALSE
  /\ held = cell
  /\ pushed = [c \in Callers |-> 0]

Next ==
  \/ PaginationSetTotal
  \/ PaginationSetPage
  \/ PaginationSetLimit
  \/ PaginationSetMeta
  \/ PaginationReset
  \/ DialogSetOpen
  \/ DialogOpen
  \/ DialogClose
  \/ DialogSetMeta
  \/ DialogReset
  \/ FiltersSetOpen
  \/ FiltersSetApplied
  \/ FiltersOpen
  \/ FiltersClose
  \/ FiltersApply
  \/ FiltersReset
  \/ ListSetData
  \/ ListSetMeta
  \/ ListClearData
  \/ ListUnshift
  \/ ListPush
  \/ ListClearPush
  \/ ListUpsert
  \/ ListUpdateAt
  \/ ListUpdate
  \/ ListUpdateAll
  \/ ListRemoveAt
  \/ ListRemove
  \/ ListRemoveAll
  \/ ListFilter
  \/ ListSort
  \/ ListReverse
  \/ ListReset
  \/ Render

Spec == Init /\ [][Next]_vars

\* ------------------------------------------------- two interleaved callers
\* Caller c makes its next push on the shared list atom.
CallerPush(c) ==
  /\ kind = "list"
  /\ pushed[c] < MaxPushes
  /\ setState("push", <<"items", <<Item(c, pushed[c] + 1)>>>>)
  /\ pushed' = [pushed EXCEPT ![c] = pushed[c] + 1]

InitCallers ==
  /\ kind = "list"
  /\ default = [data |-> <<>>, meta |-> "undefined"]
  /\ cell = listAtom(default)
  /\ inBatch \in BOOLEAN
  /\ state = cell
  /\ calls = 0
  /\ expected = cell
  /\ last = NoCall
  /\ prev = cell
  /\ rerenders = FALSE
  /\ held = cell
  /\ pushed = [c \in Callers |-> 0]

NextCallers ==
  \/ CallerPush(1)
  \/ CallerPush(2)
  \/ Render

SpecCallers == InitCallers /\ [][NextCallers]_vars

\* ---------------------------------------------------------------- claims
\* The value a SetterOrUpdater argument resolves to: the literal itself, or
\* what the caller's function returns for the field's current value.
ResolvedNum(arg, curr) == IF arg[1] = "val" THEN arg[2] ELSE curr + 1
ResolvedValues(arg, curr) ==
  IF arg[1] = "val" THEN arg[2]
  ELSE [userId |-> curr.userId, categoryId |-> "1"]

Called(k, op) == kind = k /\ last.op = op

\* C1: after setPage(p), literal or updater resolving to p, page = p and
\* offset = (p - 1) * limit for the limit in effect before the call; total,
\* limit and meta are unchanged.
C1_SetPage ==
  Called("pagination", "setPage") =>
    LET p == ResolvedNum(last.arg, prev.page)
    IN  /\ cell.page = p
        /\ cell.offset = (p - 1) * prev.limit
        /\ cell.total = prev.total
        /\ cell.limit = prev.limit
        /\ cell.meta = prev.meta

C1_Witness ==
  /\ Called("pagination", "setPage")
  /\ last.arg[1] = "fn"
  /\ cell.page = 2
  /\ prev.limit = 2
  /\ cell.offset = 2
  /\ prev.offset = 0

\* C2: after setLimit(l), literal or updater resolving to l, limit = l and
\* offset = (page - 1) * l with page unchanged; total and meta are unchanged.
C2_SetLimit ==
  Called("pagination", "setLimit") =>
    LET l == ResolvedNum(last.arg, prev.limit)
    IN  /\ cell.limit = l
        /\ cell.page = prev.page
        /\ cell.offset = (prev.page - 1) * l
        /\ cell.total = prev.total
        /\ cell.meta = prev.meta

C2_Witness ==
  /\ Called("pagination", "setLimit")
  /\ last.arg = <<"val", 2>>
  /\ prev.limit = 1
  /\ prev.page = 2
  /\ cell.offset = 2

\* C3 as stated: every pagination state produced by setPage, setLimit or
\* reset has offset = (page - 1) * limit.
C3_Original ==
  (kind = "pagination" /\ last.op \in {"setPage", "setLimit", "reset"}) =>
    cell.offset = (cell.page - 1) * cell.limit

\* C3 amended: every pagination state produced by setPage or setLimit has
\* offset = (page - 1) * limit; a reset yields the default's own offset, so
\* the equality holds after it exactly when the default satisfies it.
C3_Amended ==
  /\ (kind = "pagination" /\ last.op \in {"setPage", "setLimit"}) =>
       cell.offset = (cell.page - 1) * cell.limit
  /\ Called("pagination", "reset") =>
       /\ cell.offset = default.offset
       /\ (cell.offset = (cell.page - 1) * cell.limit) <=>
            (default.offset = (default.page - 1) * default.limit)

C3_Witness ==
  /\ Called("pagination", "setLimit")
  /\ prev.offset # (prev.page - 1) * prev.limit
  /\ cell.offset # prev.offset
  /\ cell.offset > 0

\* C4: filters apply replaces values with the resolved value and sets
\* isApplied to true whatever it was before; isOpen is unchanged.
C4_Apply ==
  Called("filters", "apply") =>
    /\ cell.values = ResolvedValues(last.arg, prev.values)
    /\ cell.isApplied = TRUE
    /\ cell.isOpen = prev.isOpen

C4_Witness ==
  /\ Called("filters", "apply")
  /\ ~prev.isApplied
  /\ cell.isApplied
  /\ cell.values # prev.values
  /\ prev.isOpen

C6_Original ==
  (kind = "filters" /\ last.op \in {"setOpen", "setApplied", "open", "close"}
     /\ ~prev.isApplied) => ~cell.isApplied

\* C6 amended: isApplied goes from false to true only in an apply or a
\* setApplied transition (or a reset to a default whose isApplied is true);
\* setOpen, open and close never take isApplied from false to true.
C6_Amended ==
  (kind = "filters" /\ last.op # "none" /\ ~prev.isApplied /\ cell.isApplied) =>
    \/ last.op = "apply"
    \/ last.op = "setApplied"
    \/ last.op = "reset" /\ default.isApplied

C6_Witness ==
  /\ Called("filters", "setOpen")
  /\ ~prev.isApplied
  /\ ~cell.isApplied
  /\ cell.isOpen # prev.isOpen

\* C7: dialog open(m) with a meta value m sets isOpen = true and meta = m;
\* open() with no argument sets isOpen = true and leaves meta as it was.
C7_Open ==
  Called("dialog", "open") =>
    /\ cell.isOpen = TRUE
    /\ last.arg[1] = "none" => cell.meta = prev.meta
    /\ (last.arg[1] = "val" /\ last.arg[2] # "undefined") =>
         cell.meta = last.arg[2]

C7_Witness ==
  /\ Called("dialog", "open")
  /\ last.arg = <<"val", "metas">>
  /\ prev.meta = "meta"
  /\ ~prev.isOpen
  /\ cell = [isOpen |-> TRUE, meta |-> "metas"]

\* C8: only a call of open with no argument leaves meta unchanged: open
\* called with an explicit undefined replaces meta with undefined.
C8_OpenExplicitUndefined ==
  (Called("dialog", "open") /\ last.arg = <<"val", "undefined">>) =>
    cell.meta = "undefined"

\* C9: for list, dialog and pagination cells reset() makes the state equal
\* to the default given at creation, field for field (for pagination the
\* default's own offset, not a recomputed one).
C9_Reset ==
  (kind \in {"list", "dialog", "pagination"} /\ last.op = "reset") =>
    cell = default

C9_Witness ==
  /\ Called("pagination", "reset")
  /\ prev.page # default.page
  /\ prev.limit # default.limit
  /\ default.offset # (default.page - 1) * default.limit
  /\ cell = default

\* C10: setters called in direct sequence inside one batch compose: the
\* atom's value is the result of applying each call's transition in call
\* order, each to the result of the previous one, never to the value the
\* component rendered with before the batch.
C10_BatchComposes ==
  (inBatch /\ calls > 0) => cell = expected

C10_Witness ==
  /\ inBatch
  /\ kind = "pagination"
  /\ calls >= 2
  /\ cell.meta # state.meta
  /\ cell.total # state.total
  /\ cell = expected

\* C11 as stated: whatever the shape, a component that obtained the setters
\* through the setters-only hook alone is never re-rendered by a change of
\* the atom's value.
C11_SettersOnlyNeverRerenders == ~rerenders

\* The positions of an array (from 1) at which findIndex's callback returns
\* true: the predicate applied to the value read there and its 0-based index.
Matches(array, pred) ==
  {i \in 1..Len(array) : Test(pred, array[i], i - 1)}

First(positions) == CHOOSE i \in positions : \A j \in positions : i <= j

\* C12: after push(...items), for every item sequence including the empty
\* one, data is the prior data followed by the items in the given order;
\* meta is unchanged.
C12_Push ==
  Called("list", "push") =>
    LET items == last.arg[2]
        n == Len(prev.data)
    IN  /\ Len(cell.data) = n + Len(items)
        /\ \A i \in 1..n : cell.data[i] = prev.data[i]
        /\ \A j \in 1..Len(items) : cell.data[n + j] = items[j]
        /\ cell.meta = prev.meta

C12_Witness ==
  /\ Called("list", "push")
  /\ prev.data = <<1>>
  /\ last.arg[2] = <<2>>
  /\ cell.data = <<1, 2>>

\* C13: after unshift(...items), for every item sequence, data is the items
\* in the given order followed by the prior data; meta is unchanged.
C13_Unshift ==
  Called("list", "unshift") =>
    LET items == last.arg[2]
        m == Len(items)
    IN  /\ Len(cell.data) = m + Len(prev.data)
        /\ \A j \in 1..m : cell.data[j] = items[j]
        /\ \A i \in 1..Len(prev.data) : cell.data[m + i] = prev.data[i]
        /\ cell.meta = prev.meta

C13_Witness ==
  /\ Called("list", "unshift")
  /\ prev.data = <<1>>
  /\ last.arg[2] = <<2>>
  /\ cell.data = <<2, 1>>

\* C14: remove(predicate) removes the element at the lowest index at which
\* the predicate holds and keeps every other element in its relative order,
\* later matches included; when the predicate holds nowhere data is
\* unchanged; meta is unchanged.
C14_Remove ==
  Called("list", "remove") =>
    LET d == prev.data
        M == Matches(d, last.arg[2])
    IN  /\ cell.meta = prev.meta
        /\ IF M = {} THEN cell.data = d
           ELSE /\ Len(cell.data) = Len(d) - 1
                /\ \A i \in 1..(Len(d) - 1) :
                     cell.data[i] = IF i < First(M) THEN d[i] ELSE d[i + 1]

C14_Witness ==
  /\ Called("list", "remove")
  /\ last.arg[2] = "any"
  /\ prev.data = <<1, 2>>
  /\ cell.data = <<2>>

\* C15: removeAll(predicate) removes every element for which the predicate
\* holds; data becomes exactly the elements for which it does not hold, in
\* their prior relative order; meta is unchanged.
C15_RemoveAll ==
  Called("list", "removeAll") =>
    LET d == prev.data
        K == {i \in 1..Len(d) :
                d[i] # Empty /\ ~Test(last.arg[2], d[i], i - 1)}
    IN  /\ Len(cell.data) = Cardinality(K)
        /\ \A i \in K : cell.data[Cardinality({j \in K : j <= i})] = d[i]
        /\ cell.meta = prev.meta

C15_Witness ==
  /\ Called("list", "removeAll")
  /\ last.arg[2] = "evenIndex"
  /\ prev.data = <<1, 2>>
  /\ cell.data = <<2>>

\* C16 as stated: for every predicate, a second removeAll(predicate) right
\* after the first leaves the state unchanged.
C16_Original ==
  Called("list", "removeAll") => updater("removeAll", last.arg, cell) = cell

\* A predicate whose answer depends on the item alone, not on its index.
ItemOnly(pred) ==
  \A x \in Items \cup {Empty} : \A i, j \in 0..MaxLen :
    Test(pred, x, i) = Test(pred, x, j)

\* C16 amended: for every predicate that depends only on the item, a second
\* removeAll(predicate) right after the first leaves the state unchanged; a
\* predicate that reads the index sees the survivors at new indexes and can
\* remove more of them.
C16_Amended ==
  (Called("list", "removeAll") /\ ItemOnly(last.arg[2])) =>
    updater("removeAll", last.arg, cell) = cell

C16_Witness ==
  /\ Called("list", "removeAll")
  /\ last.arg[2] = "eq1"
  /\ prev.data = <<1, 2>>
  /\ cell.data = <<2>>
  /\ updater("removeAll", last.arg, cell) = cell

\* C17: update(predicate, newItem) puts newItem at the lowest index at which
\* predicate(item, index) holds and nowhere else; every other element, the
\* length and meta are unchanged; when the predicate holds nowhere the state
\* is unchanged.
C17_Update ==
  Called("list", "update") =>
    LET d == prev.data
        M == Matches(d, last.arg[2])
    IN  /\ cell.meta = prev.meta
        /\ Len(cell.data) = Len(d)
        /\ \A i \in 1..Len(d) :
             cell.data[i] =
               IF M # {} /\ i = First(M) THEN last.arg[3] ELSE d[i]

C17_Witness ==
  /\ Called("list", "update")
  /\ last.arg = <<"pred", "eq1", 2>>
  /\ prev.data = <<1, 1>>
  /\ cell.data = <<2, 1>>

\* C18: updateAll(predicate, newItem) puts newItem at the position of every
\* element for which the predicate holds; every other position, the length,
\* the order and meta are unchanged.
C18_UpdateAll ==
  Called("list", "updateAll") =>
    LET d == prev.data
    IN  /\ cell.meta = prev.meta
        /\ Len(cell.data) = Len(d)
        /\ \A i \in 1..Len(d) :
             cell.data[i] =
               IF d[i] # Empty /\ Test(last.arg[2], d[i], i - 1)
                 THEN last.arg[3] ELSE d[i]

C18_Witness ==
  /\ Called("list", "updateAll")
  /\ last.arg = <<"pred", "eq1", 2>>
  /\ prev.data = <<1, 1>>
  /\ cell.data = <<2, 2>>

\* C19: upsert(predicate, newItem) appends newItem at the end of data when
\* the predicate holds at no index, and leaves the state unchanged when it
\* holds at one or more: the matching elements are not replaced.
C19_Upsert ==
  Called("list", "upsert") =>
    LET d == prev.data
    IN  IF Matches(d, last.arg[2]) = {}
          THEN /\ Len(cell.data) = Len(d) + 1
               /\ \A i \in 1..Len(d) : cell.data[i] = d[i]
               /\ cell.data[Len(d) + 1] = last.arg[3]
               /\ cell.meta = prev.meta
          ELSE cell = prev

C19_Witness ==
  /\ Called("list", "upsert")
  /\ last.arg = <<"pred", "eq1", 2>>
  /\ prev.data = <<1>>
  /\ cell = prev

\* C20: updateAt(i, item) and removeAt(i) with a negative i change nothing:
\* data and meta after the call equal those before it; removeAt(-1) does not
\* remove the last element.
C20_NegativeIndex ==
  ((Called("list", "updateAt") \/ Called("list", "removeAt"))
     /\ last.arg[2] < 0) =>
    cell = prev

C20_Witness ==
  /\ Called("list", "removeAt")
  /\ last.arg = <<"at", -1>>
  /\ prev.data = <<1, 2>>
  /\ cell.data = <<1, 2>>

\* C21: updateAt(i, item) with 0 <= i < length puts item at position i;
\* the length, every other position and meta are unchanged.
C21_UpdateAt ==
  (Called("list", "updateAt")
     /\ last.arg[2] >= 0 /\ last.arg[2] < Len(prev.data)) =>
    /\ Len(cell.data) = Len(prev.data)
    /\ \A k \in 1..Len(prev.data) :
         cell.data[k] = IF k = last.arg[2] + 1 THEN last.arg[3]
                        ELSE prev.data[k]
    /\ cell.meta = prev.meta

C21_Witness ==
  /\ Called("list", "updateAt")
  /\ last.arg = <<"at", 1, 1>>
  /\ prev.data = <<1, 2>>
  /\ cell.data = <<1, 1>>

\* C22: removeAt(i) with 0 <= i < length removes exactly the element at
\* position i: the length decreases by one, the other elements keep their
\* relative order and meta is unchanged.
C22_RemoveAt ==
  (Called("list", "removeAt")
     /\ last.arg[2] >= 0 /\ last.arg[2] < Len(prev.data)) =>
    /\ Len(cell.data) = Len(prev.data) - 1
    /\ \A k \in 1..(Len(prev.data) - 1) :
         cell.data[k] = IF k <= last.arg[2] THEN prev.data[k]
                        ELSE prev.data[k + 1]
    /\ cell.meta = prev.meta

C22_Witness ==
  /\ Called("list", "removeAt")
  /\ last.arg = <<"at", 0>>
  /\ prev.data = <<1, 2>>
  /\ cell.data = <<2>>

\* The compare function that orders the other way round: (a, b) => cmp(b, a).
Inverse(cmp) ==
  CASE cmp = "asc" -> "desc"
    [] cmp = "desc" -> "asc"
    [] cmp = "zero" -> "zero"
    [] cmp = "throws" -> "throws"

\* cmp ties no two elements of the array.
NoTies(cmp, array) ==
  \A i, j \in 1..Len(array) :
    (i # j /\ array[i] # Empty /\ array[j] # Empty) =>
      Compare(cmp, array[i], array[j]) # 0

\* C23 as stated: when cmp ties no two elements of data, sort(cmp) followed
\* by sort(inverse of cmp) gives the same data as sort(cmp) followed by
\* reverse().
C23_Original ==
  (Called("list", "sort") /\ last.arg[2] # "undefined"
     /\ NoTies(last.arg[2], prev.data)) =>
    updater("sort", <<"cmp", Inverse(last.arg[2])>>, cell)
      = updater("reverse", <<"none">>, cell)

\* C23 amended: the same, for data without empty slots; sort keeps empty
\* slots at the end whatever the compare function, reverse brings them to
\* the front.
C23_Amended ==
  (Called("list", "sort") /\ last.arg[2] # "undefined"
     /\ NoTies(last.arg[2], prev.data)
     /\ \A i \in 1..Len(prev.data) : prev.data[i] # Empty) =>
    updater("sort", <<"cmp", Inverse(last.arg[2])>>, cell)
      = updater("reverse", <<"none">>, cell)

C23_Witness ==
  /\ Called("list", "sort")
  /\ last.arg = <<"cmp", "asc">>
  /\ prev.data = <<2, 1>>
  /\ cell.data = <<1, 2>>
  /\ updater("sort", <<"cmp", "desc">>, cell).data = <<2, 1>>
  /\ updater("reverse", <<"none">>, cell).data = <<2, 1>>

\* C24: sort(compareFn) makes data a permutation of the prior data in which
\* no element is after one compareFn puts it before, and elements that
\* compare as zero keep their prior relative order; meta is unchanged.
C24_Sort ==
  (Called("list", "sort") /\ last.arg[2] # "undefined") =>
    LET d == prev.data
        r == cell.data
        n == Len(d)
    IN  /\ Len(r) = n
        /\ cell.meta = prev.meta
        /\ \E f \in [1..n -> 1..n] :
             /\ \A i, j \in 1..n : f[i] = f[j] => i = j
             /\ \A i \in 1..n : r[i] = d[f[i]]
             /\ \A i, j \in 1..n :
                  (i < j /\ r[i] # Empty /\ r[j] # Empty) =>
                    /\ Compare(last.arg[2], r[i], r[j]) <= 0
                    /\ Compare(last.arg[2], r[i], r[j]) = 0 => f[i] < f[j]

C24_Witness ==
  /\ Called("list", "sort")
  /\ last.arg = <<"cmp", "zero">>
  /\ prev.data = <<2, 1>>
  /\ cell.data = <<2, 1>>

\* C25: reverse() makes data the prior data in reversed order: the length
\* is the same and the element at position k moves to position
\* length - 1 - k; meta is unchanged.
C25_Reverse ==
  Called("list", "reverse") =>
    LET n == Len(prev.data)
    IN  /\ Len(cell.data) = n
        /\ \A k \in 0..(n - 1) : cell.data[(n - 1 - k) + 1] = prev.data[k + 1]
        /\ cell.meta = prev.meta

C25_Witness ==
  /\ Called("list", "reverse")
  /\ prev.data = <<1, 2>>
  /\ cell.data = <<2, 1>>

\* C26: filter(predicate) makes data exactly the elements of the prior data
\* for which the predicate holds, in their prior relative order; meta is
\* unchanged.
C26_Filter ==
  Called("list", "filter") =>
    LET d == prev.data
        K == {i \in 1..Len(d) :
                d[i] # Empty /\ Test(last.arg[2], d[i], i - 1)}
    IN  /\ Len(cell.data) = Cardinality(K)
        /\ \A i \in K : cell.data[Cardinality({j \in K : j <= i})] = d[i]
        /\ cell.meta = prev.meta

C26_Witness ==
  /\ Called("list", "filter")
  /\ last.arg[2] = "eq2"
  /\ prev.data = <<1, 2>>
  /\ cell.data = <<2>>

\* C27: clearPush(...items), one transition, makes data exactly the given
\* items in the given order whatever the prior data, which is the state
\* clearData() followed by push(...items) gives; meta is unchanged.
C27_ClearPush ==
  Called("list", "clearPush") =>
    LET items == last.arg[2]
    IN  /\ Len(cell.data) = Len(items)
        /\ \A i \in 1..Len(items) : cell.data[i] = items[i]
        /\ cell.meta = prev.meta
        /\ cell = updater("push", last.arg,
                          updater("clearData", <<"none">>, prev))

C27_Witness ==
  /\ Called("list", "clearPush")
  /\ last.arg[2] = <<2>>
  /\ prev.data = <<1, 2>>
  /\ cell.data = <<2>>

\* C28: every list setter other than setMeta and reset leaves meta as it
\* was before the call, and setMeta leaves data as it was before the call.
C28_MetaIndependent ==
  /\ (kind = "list"
        /\ last.op \in {"setData", "clearData", "unshift", "push",
                        "clearPush", "upsert", "updateAt", "update",
                        "updateAll", "removeAt", "remove", "removeAll",
                        "filter", "sort", "reverse"}) =>
       cell.meta = prev.meta
  /\ Called("list", "setMeta") => cell.data = prev.data

C28_Witness ==
  /\ Called("list", "reverse")
  /\ prev.meta = "meta"
  /\ prev.data = <<1, 2>>
  /\ cell.data = <<2, 1>>
  /\ cell.meta = "meta"

\* C29: close() sets isOpen to false and changes nothing else; open()
\* without argument, close() and setOpen leave meta as it was, so meta
\* keeps its value until setMeta, open(meta) or reset replaces it.
C29_Close ==
  /\ Called("dialog", "close") =>
       (cell.isOpen = FALSE /\ cell.meta = prev.meta)
  /\ (kind = "dialog"
        /\ (last.op \in {"close", "setOpen"}
              \/ (last.op = "open" /\ last.arg[1] = "none"))) =>
       cell.meta = prev.meta

C29_Witness ==
  /\ Called("dialog", "close")
  /\ prev.isOpen = TRUE
  /\ prev.meta = "meta"
  /\ cell.isOpen = FALSE
  /\ cell.meta = "meta"

\* C30: in a filters cell open(), close() and setOpen change only isOpen
\* (open gives true, close gives false) and leave isApplied and values as
\* they were; setApplied changes only isApplied and leaves isOpen and
\* values as they were.
C30_IndependentToggles ==
  /\ (kind = "filters" /\ last.op \in {"open", "close", "setOpen"}) =>
       (cell.isApplied = prev.isApplied /\ cell.values = prev.values)
  /\ Called("filters", "open") => cell.isOpen = TRUE
  /\ Called("filters", "close") => cell.isOpen = FALSE
  /\ Called("filters", "setApplied") =>
       (cell.isOpen = prev.isOpen /\ cell.values = prev.values)

C30_Witness ==
  /\ Called("filters", "setApplied")
  /\ prev.isOpen = TRUE
  /\ prev.isApplied = TRUE
  /\ cell.isApplied = FALSE
  /\ cell.isOpen = TRUE
  /\ cell.values = prev.values

\* C31: setTotal changes only total and setMeta changes only meta; page,
\* limit and offset are left as they were, so offset changes only in a
\* setPage, setLimit or reset transition.
C31_TotalAndMetaOnly ==
  /\ Called("pagination", "setTotal") =>
       /\ cell.page = prev.page
       /\ cell.limit = prev.limit
       /\ cell.offset = prev.offset
       /\ cell.meta = prev.meta
  /\ Called("pagination", "setMeta") =>
       /\ cell.total = prev.total
       /\ cell.page = prev.page
       /\ cell.limit = prev.limit
       /\ cell.offset = prev.offset
  /\ (kind = "pagination" /\ ~inBatch /\ cell.offset # prev.offset) =>
       last.op \in {"setPage", "setLimit", "reset"}

C31_Witness ==
  /\ Called("pagination", "setTotal")
  /\ prev.offset # (prev.page - 1) * prev.limit
  /\ cell.total # prev.total
  /\ cell.offset = prev.offset

\* C32 as stated: from a default with total >= 0, page >= 1, limit >= 1 and
\* offset >= 0, every pagination state the setters reach has page >= 1,
\* limit >= 1, total >= 0 and offset >= 0.
C32_FieldRanges ==
  (kind = "pagination"
     /\ default.total >= 0 /\ default.page >= 1
     /\ default.limit >= 1 /\ default.offset >= 0) =>
    /\ cell.page >= 1
    /\ cell.limit >= 1
    /\ cell.total >= 0
    /\ cell.offset >= 0

Target(op) ==
  CASE op = "setData" -> "data"
    [] op = "setMeta" -> "meta"
    [] op = "setOpen" -> "isOpen"
    [] op = "setApplied" -> "isApplied"
    [] op = "apply" -> "values"
    [] op = "setTotal" -> "total"
    [] op = "setPage" -> "page"
    [] op = "setLimit" -> "limit"

\* C34: every value-or-updater setter (list setData/setMeta, dialog
\* setOpen/setMeta, filters setOpen/setApplied/apply, pagination
\* setTotal/setPage/setLimit/setMeta) stores a non-callable argument v as it
\* is in the field it targets, and for a function f stores f(c), c being
\* the field's value in the state the transition is applied to.
C34_ValueOrUpdater ==
  last.op \in {"setData", "setMeta", "setOpen", "setApplied", "apply",
               "setTotal", "setPage", "setLimit"} =>
    cell[Target(last.op)] =
      IF last.arg[1] = "fn"
        THEN Call(last.arg[2], prev[Target(last.op)])
        ELSE last.arg[2]

C34_Witness ==
  /\ Called("list", "setData")
  /\ last.arg = <<"fn", "tail">>
  /\ prev.data = <<1, 2>>
  /\ cell.data = <<2>>

\* The positions of data that hold an item pushed by caller c.
OfCaller(data, c) == {i \in 1..Len(data) : data[i] \div 10 = c}

\* C35: when the push calls of two callers on the same atom interleave in
\* any order, no update is lost: data holds every item pushed so far, each
\* caller's items in that caller's call order.
C35_NoLostUpdate ==
  /\ Len(cell.data) = pushed[1] + pushed[2]
  /\ \A c \in Callers :
       LET P == OfCaller(cell.data, c)
       IN  /\ Cardinality(P) = pushed[c]
           /\ \A i \in P : cell.data[i] = Item(c, Cardinality({j \in P : j <= i}))

C35_Witness ==
  /\ inBatch
  /\ calls = 2
  /\ pushed = [c \in Callers |-> 2]
  /\ cell.data = <<11, 21, 22, 12>>

\* C36: updateAt(i, item) with i >= length gives data of length i + 1: the
\* prior positions hold the prior data, position i holds item and the
\* positions between the old length and i are empty slots.
C36_UpdateAtPastEnd ==
  (Called("list", "updateAt") /\ last.arg[2] >= Len(prev.data)) =>
    /\ Len(cell.data) = last.arg[2] + 1
    /\ \A k \in 1..Len(prev.data) : cell.data[k] = prev.data[k]
    /\ cell.data[last.arg[2] + 1] = last.arg[3]
    /\ \A k \in (Len(prev.data) + 1)..last.arg[2] : cell.data[k] = Empty
    /\ cell.meta = prev.meta

C36_Witness ==
  /\ Called("list", "updateAt")
  /\ last.arg = <<"at", 1, 2>>
  /\ prev.data = <<>>
  /\ cell.data = <<Empty, 2>>

\* C37: removeAt(i) with i >= length removes nothing: data has the same
\* elements in the same order and the same length as before the call.
C37_RemoveAtPastEnd ==
  (Called("list", "removeAt") /\ last.arg[2] >= Len(prev.data)) =>
    /\ Len(cell.data) = Len(prev.data)
    /\ \A k \in 1..Len(prev.data) : cell.data[k] = prev.data[k]

C37_Witness ==
  /\ Called("list", "removeAt")
  /\ last.arg = <<"at", 2>>
  /\ prev.data = <<1, 2>>
  /\ cell.data = <<1, 2>>

\* C38: no setter modifies the record, or its data sequence, that was read
\* from the atom before the call: after the call that record reads as it
\* did when it was read, while the atom holds the updater's result.
C38_NoInPlaceMutation ==
  /\ last.op # "none" => held = prev
  /\ (kind = "list"
        /\ last.op \in {"sort", "reverse", "updateAt", "removeAt"}) =>
       cell = updater(last.op, last.arg, held)

C38_Witness ==
  /\ Called("list", "sort")
  /\ last.arg = <<"cmp", "asc">>
  /\ prev.data = <<2, 1>>
  /\ held.data = <<2, 1>>
  /\ cell.data = <<1, 2>>

\* C39: removeAll and updateAll call the predicate on each element with the
\* index the element has in the data before the call: with the predicate
\* 'index is even', removeAll keeps exactly the elements at odd indexes of
\* the prior data and updateAll replaces exactly those at even indexes.
C39_OriginalIndexes ==
  /\ (Called("list", "removeAll") /\ last.arg[2] = "evenIndex") =>
       LET d == prev.data
           K == {i \in 1..Len(d) : d[i] # Empty /\ (i - 1) % 2 = 1}
       IN  /\ Len(cell.data) = Cardinality(K)
           /\ \A i \in K : cell.data[Cardinality({j \in K : j <= i})] = d[i]
  /\ (Called("list", "updateAll") /\ last.arg[2] = "evenIndex") =>
       /\ Len(cell.data) = Len(prev.data)
       /\ \A i \in 1..Len(prev.data) :
            cell.data[i] =
              IF prev.data[i] # Empty /\ (i - 1) % 2 = 0
                THEN last.arg[3] ELSE prev.data[i]

C39_Witness ==
  /\ Called("list", "removeAll")
  /\ last.arg[2] = "evenIndex"
  /\ prev.data = <<2, 1>>
  /\ cell.data = <<1>>

\* C40: a function g passed to setMeta of a dialog or a list is never
\* stored as the new meta: meta becomes the result of calling g with the
\* current meta.
C40_FunctionNeverStored ==
  (kind \in {"dialog", "list"} /\ last.op = "setMeta"
     /\ last.arg[1] = "fn") =>
    /\ cell.meta = Call(last.arg[2], prev.meta)
    /\ cell.meta # last.arg[2]

C40_Witness ==
  /\ Called("dialog", "setMeta")
  /\ last.arg = <<"fn", "append">>
  /\ prev.meta = "meta"
  /\ cell.meta = "metas"

====
